---- MODULE Spec2Model ----
(***************************************************************************)
(* A model of streamprintf.h: class Printf<CharT>, the type-checked        *)
(* printf that oprintf/strprintf drive.  One formatting call is            *)
(*     Printf<CharT> p(ostm, fmt);  p << a1 << ... << an;  ~Printf()       *)
(* The model is of a debug build (NDEBUG not defined): every assertmsg     *)
(* that fails halts the call.                                              *)
(*                                                                         *)
(* Characters are one-character strings; a C string is the sequence of its *)
(* characters, and the memory it lives in is that sequence, the terminator *)
(* NUL and the bytes that happen to follow it.  Positions are 0-based, as  *)
(* in the source.                                                          *)
(***************************************************************************)
EXTENDS Naturals, Sequences, FiniteSets

VARIABLES
    _fmt,      \* Printf::_fmt: the format string (without its terminator)
    beyond,    \* the bytes that follow _fmt's terminator in memory
    _pos,      \* Printf::_pos
    _ostm,     \* the text written to Printf::_ostm so far
    args,      \* the arguments a1..an of the oprintf call
    nargs,     \* how many of them have been pushed with operator<<
    pc,        \* "start", "pushing", "done" (destructor ran), "aborted"
    err,       \* the assertion (or fault) that halted the call, or NoErr
    frame,     \* the locals of the last Do() as they stood when it ended
    maxRead,   \* the highest format-string index read so far
    wide,      \* sizeof(CharT) != sizeof(char)
    STREAMPRINTF_STRICT_SIGN,
    STREAMPRINTF_STRICT_INTSIZE

vars == <<_fmt, beyond, _pos, _ostm, args, nargs, pc, err, frame, maxRead,
          wide, STREAMPRINTF_STRICT_SIGN, STREAMPRINTF_STRICT_INTSIZE>>

config == <<_fmt, beyond, args, wide, STREAMPRINTF_STRICT_SIGN,
            STREAMPRINTF_STRICT_INTSIZE>>

-----------------------------------------------------------------------------
(* enum Size, enum Type *)
None == 1
Short == 2
Long == 3
Int64 == 4
Int == 256
Unsigned == 512
Float == 768
Char == 1024
String == 1280
WideString == 1536
Pointer == 1792

\* sizeof(format) / sizeof(format[0])
FormatCapacity == 30
\* the margin added to the width of the result buffer
ResultMargin == 30

-----------------------------------------------------------------------------
(* Memory and characters *)
NUL == "NUL"
\* what a read outside the mapped bytes gives: the read faults
UNMAPPED == "UNMAPPED"

Memory(f, b) == f \o <<NUL>> \o b

Rd(m, p) == IF p < Len(m) THEN m[p + 1] ELSE UNMAPPED

DigitChars == <<"0", "1", "2", "3", "4", "5", "6", "7", "8", "9">>
LowerHex == DigitChars \o <<"a", "b", "c", "d", "e", "f">>
UpperHex == DigitChars \o <<"A", "B", "C", "D", "E", "F">>

isdigit(c) == \E d \in 1..10 : DigitChars[d] = c
DigitVal(c) == (CHOOSE d \in 1..10 : DigitChars[d] = c) - 1

\* strchr(s, c) != NULL: the terminator of s is part of s, so c = '\0' is found
strchr(s, c) == c = NUL \/ \E k \in 1..Len(s) : s[k] = c

Max(a, b) == IF a > b THEN a ELSE b

-----------------------------------------------------------------------------
(* Failures *)
NoErr == [msg |-> "", line |-> 0]
TooFew == "printf: Too few arguments"
TooMany == "printf: Too many arguments"
Invalid == "printf: Invalid format specification"
TooLong == "printf: Format specification is too long"
Mismatch == "printf: Type mismatch"
\* not assertions of the source: a read of unmapped memory, and the rendering
\* routine writing past the result buffer (or handed a directive it cannot read)
Fault == "access violation"
Overrun == "result buffer overrun"
Smashed == "format buffer overrun"
Failed(msg, line) == [msg |-> msg, line |-> line]

-----------------------------------------------------------------------------
(* Printf::OutputStaticText *)
\* A variant of line 354 that asserts nothing
NoTrailingPercentCheck(c1) == NoErr

\* Line 354: the assertion on the character c1 after a '%'
TrailingPercentCheck(c1) == IF c1 # NUL THEN NoErr ELSE Failed(Invalid, 354)

\* A variant of line 358 that puts both characters of the pair on the stream
PercentTextBoth == <<"%", "%">>

\* Line 358: what a "%%" pair puts on the stream
PercentText == <<"%">>

\* One iteration of the while loop at m, pos.  stop: the loop ends here;
\* read: the highest index the iteration read.
StaticStep(m, pos, out) ==
    LET c == Rd(m, pos)
        c1 == Rd(m, pos + 1)
    IN  IF c = NUL
        THEN [pos |-> pos, out |-> out, err |-> NoErr, stop |-> TRUE, read |-> pos]
        ELSE IF c = UNMAPPED
        THEN [pos |-> pos, out |-> out, err |-> Failed(Fault, 350), stop |-> TRUE,
              read |-> pos]
        ELSE IF c = "%"
        THEN IF c1 = UNMAPPED
             THEN [pos |-> pos, out |-> out, err |-> Failed(Fault, 354),
                   stop |-> TRUE, read |-> pos + 1]
             ELSE IF TrailingPercentCheck(c1) # NoErr
             THEN [pos |-> pos, out |-> out, err |-> TrailingPercentCheck(c1),
                   stop |-> TRUE, read |-> pos + 1]
             ELSE IF c1 = "%"
             THEN [pos |-> pos + 2, out |-> out \o PercentText, err |-> NoErr,
                   stop |-> FALSE, read |-> pos + 1]
             ELSE [pos |-> pos, out |-> out, err |-> NoErr, stop |-> TRUE,
                   read |-> pos + 1]
        ELSE [pos |-> pos + 1, out |-> out \o <<c>>, err |-> NoErr,
              stop |-> FALSE, read |-> pos]

RECURSIVE StaticLoop(_, _, _, _)
StaticLoop(m, pos, out, read) ==
    LET s == StaticStep(m, pos, out)
    IN  IF s.stop
        THEN [pos |-> s.pos, out |-> s.out, err |-> s.err,
              read |-> Max(read, s.read)]
        ELSE StaticLoop(m, s.pos, s.out, Max(read, s.read))

\* The text it appends to the stream, the cursor it leaves, the assertion
\* that failed (if any) and the highest index it read.
OutputStaticText(m, pos) == StaticLoop(m, pos, <<>>, pos)

-----------------------------------------------------------------------------
(* Printf::Do, the directive: format[i++] = _fmt[_pos++] from the '%' to the *)
(* conversion character                                                      *)
FlagChars == <<"-", "+", "0", " ", "#">>
SizeChars == <<"h", "l", "L">>

\* while (strchr("-+0 #", _fmt[_pos])) ...: the position the loop stops at
RECURSIVE FlagsEnd(_, _)
FlagsEnd(m, p) == IF strchr(FlagChars, Rd(m, p)) THEN FlagsEnd(m, p + 1) ELSE p

\* while (isdigit(_fmt[_pos])) ...: the position the loop stops at
RECURSIVE DigitsEnd(_, _)
DigitsEnd(m, p) == IF isdigit(Rd(m, p)) THEN DigitsEnd(m, p + 1) ELSE p

\* width = (width*10) + (format[i-1] - '0') over the digits at from..to-1
RECURSIVE DigitsValue(_, _, _, _)
DigitsValue(m, from, to, acc) ==
    IF from >= to THEN acc
    ELSE DigitsValue(m, from + 1, to, acc * 10 + DigitVal(Rd(m, from)))

\* The size test of the directive at p: the size character, where the
\* conversion character is looked for, and the highest index the test read.
SizeMarker(m, p) ==
    LET sc == Rd(m, p)
    IN  IF strchr(SizeChars, sc)
        THEN [sizeChar |-> IF sc = "L" THEN "l" ELSE sc, end |-> p + 1, read |-> p]
        ELSE IF sc = "I" /\ Rd(m, p + 1) = "6" /\ Rd(m, p + 2) = "4"
        THEN [sizeChar |-> "I", end |-> p + 3, read |-> p + 2]
        ELSE [sizeChar |-> NUL, end |-> p,
              read |-> IF sc # "I" THEN p
                       ELSE IF Rd(m, p + 1) # "6" THEN p + 1 ELSE p + 2]

\* Lines 185-232: everything the parse of the directive at p0 computes.
\*   flags     the flag characters copied
\*   sizeChar  as set by the size test (NUL: none)
\*   convPos   where the conversion character is read
\*   read      the highest index read up to the assertion of line 231
\*   flagsEnd, widthEnd, precEnd   where the flags, the width and the
\*             precision end
Directive(m, p0) ==
    LET f == FlagsEnd(m, p0 + 1)
        w == DigitsEnd(m, f)
        dot == Rd(m, w) = "."
        pe == IF dot THEN DigitsEnd(m, w + 1) ELSE w
        sz == SizeMarker(m, pe)
    IN  [flags |-> {Rd(m, k) : k \in (p0 + 1)..(f - 1)},
         width |-> DigitsValue(m, f, w, 0),
         dot |-> dot,
         precision |-> IF dot THEN DigitsValue(m, w + 1, pe, 0) ELSE 0,
         marker |-> IF sz.end > pe THEN Rd(m, pe) ELSE NUL,
         sizeChar |-> sz.sizeChar,
         convPos |-> sz.end,
         conv |-> Rd(m, sz.end),
         read |-> Max(sz.read, sz.end),
         flagsEnd |-> f,
         widthEnd |-> w,
         precEnd |-> pe]

\* A variant of lines 234-247 without the test of line 234 for C and S:
\* C and S take the opposite width even after a size marker
ResolveSizeCharAlwaysOpposite(sizeChar, conv) ==
    IF conv \in {"C", "S"} THEN (IF ~wide THEN "l" ELSE "h")
    ELSE IF sizeChar = NUL /\ conv \in {"c", "s"} THEN (IF ~wide THEN "h" ELSE "l")
    ELSE sizeChar

\* Lines 234-247: the size character when the directive gave none
ResolveSizeChar(sizeChar, conv) ==
    IF sizeChar = NUL
    THEN CASE conv \in {"c", "s"} -> (IF ~wide THEN "h" ELSE "l")
           [] conv \in {"C", "S"} -> (IF ~wide THEN "l" ELSE "h")
           [] OTHER -> sizeChar
    ELSE sizeChar

\* Lines 249-252
RewriteFmtChar(conv) ==
    IF conv = "C" THEN "c" ELSE IF conv = "S" THEN "s" ELSE conv

-----------------------------------------------------------------------------
(* Printf::Do, the type-checking *)
\* A variant of lines 168-182 that always takes the #else branch of
\* STREAMPRINTF_STRICT_SIGN
legalPrintfTypeCharsLax(type) ==
    CASE type = Int \/ type = Unsigned -> <<"d", "i", "u", "o", "x", "X">>
      [] type = Float -> <<"e", "E", "f", "g", "G">>
      [] type = Char -> <<"c">>
      [] type = String -> <<"s", "p">>
      [] type = Pointer -> <<"p">>
      [] OTHER -> <<>>

\* Lines 168-182; <<>> stands for the default: assert(false)
legalPrintfTypeChars(type) ==
    CASE type = Int ->
            IF STREAMPRINTF_STRICT_SIGN THEN <<"d", "i", "o", "x", "X">>
            ELSE <<"d", "i", "u", "o", "x", "X">>
      [] type = Unsigned ->
            IF STREAMPRINTF_STRICT_SIGN THEN <<"u", "o", "x", "X">>
            ELSE <<"d", "i", "u", "o", "x", "X">>
      [] type = Float -> <<"e", "E", "f", "g", "G">>
      [] type = Char -> <<"c">>
      [] type = String -> <<"s", "p">>
      [] type = Pointer -> <<"p">>
      [] OTHER -> <<>>

\* fmtChar is never '\0' here, so strchr finds it only among the characters
InLegal(type, fmtChar) ==
    \E k \in 1..Len(legalPrintfTypeChars(type)) : legalPrintfTypeChars(type)[k] = fmtChar

Check(ok, msg, line) == IF ok THEN NoErr ELSE Failed(msg, line)

\* A variant of lines 259-297 that always takes the #else branch of
\* STREAMPRINTF_STRICT_INTSIZE
SizeCheckLax(size, type, sizeChar, fmtChar) ==
    IF type = String /\ fmtChar = "p"
    THEN Check(sizeChar = NUL, Invalid, 261)
    ELSE IF type = Unsigned /\ size = Short
    THEN IF fmtChar = "c" THEN Check(sizeChar = "l", Mismatch, 268)
         ELSE Check(sizeChar = "h", Mismatch, 270)
    ELSE CASE size = None \/ size = Long ->
                 Check(sizeChar = NUL \/ sizeChar = "l", Mismatch, 287)
           [] size = Short -> Check(sizeChar = "h", Mismatch, 291)
           [] size = Int64 -> Check(sizeChar = "I", Mismatch, 294)
           [] OTHER -> NoErr

\* Lines 259-297: the assertion on the size character
SizeCheck(size, type, sizeChar, fmtChar) ==
    IF type = String /\ fmtChar = "p"
    THEN Check(sizeChar = NUL, Invalid, 261)
    ELSE IF type = Unsigned /\ size = Short
    THEN IF fmtChar = "c" THEN Check(sizeChar = "l", Mismatch, 268)
         ELSE Check(sizeChar = "h", Mismatch, 270)
    ELSE CASE size = None ->
                 IF STREAMPRINTF_STRICT_INTSIZE
                 THEN Check(sizeChar = NUL, Mismatch, 278)
                 ELSE Check(sizeChar = NUL \/ sizeChar = "l", Mismatch, 287)
           [] size = Long ->
                 IF STREAMPRINTF_STRICT_INTSIZE
                 THEN Check(sizeChar = "l", Mismatch, 281)
                 ELSE Check(sizeChar = NUL \/ sizeChar = "l", Mismatch, 287)
           [] size = Short -> Check(sizeChar = "h", Mismatch, 291)
           [] size = Int64 -> Check(sizeChar = "I", Mismatch, 294)
           [] OTHER -> NoErr

\* Lines 299-302: the assertion on the conversion character
CharCheck(size, type, fmtChar) ==
    IF type = Unsigned /\ size = Short
    THEN Check(fmtChar = "c" \/ InLegal(type, fmtChar), Mismatch, 300)
    ELSE Check(InLegal(type, fmtChar), Mismatch, 302)

\* Lines 257-303
TypeCheck(size, type, sizeChar, fmtChar) ==
    LET e == SizeCheck(size, type, sizeChar, fmtChar)
    IN  IF e # NoErr THEN e ELSE CharCheck(size, type, fmtChar)

-----------------------------------------------------------------------------
(* Argument values.  An integer or a pointer is its bit pattern in 16-bit    *)
(* limbs, most significant first: two limbs for what is passed as an int or  *)
(* a long (a short is promoted), four for an __int64.  A floating-point      *)
(* value is a whole number: its sign and the decimal digits of its integer   *)
(* part.  A string is its characters and its address.                        *)
LimbBase == 256 * 256
LimbSign == LimbBase \div 2

Rep(c, n) == [k \in 1..n |-> c]
Take(s, n) == IF n >= Len(s) THEN s ELSE SubSeq(s, 1, n)

IsZero(limbs) == \A k \in 1..Len(limbs) : limbs[k] = 0

\* limbs divided by base (base <= 16): quotient limbs and remainder
RECURSIVE LimbDiv(_, _, _, _, _)
LimbDiv(limbs, base, k, rem, acc) ==
    IF k > Len(limbs) THEN [q |-> acc, r |-> rem]
    ELSE LET cur == rem * LimbBase + limbs[k]
         IN  LimbDiv(limbs, base, k + 1, cur % base, Append(acc, cur \div base))

\* the digits of the unsigned value limbs in base, none for zero
RECURSIVE ToDigits(_, _, _)
ToDigits(limbs, base, table) ==
    IF IsZero(limbs) THEN <<>>
    ELSE LET d == LimbDiv(limbs, base, 1, 0, <<>>)
         IN  ToDigits(d.q, base, table) \o <<table[d.r + 1]>>

\* two's complement negation
RECURSIVE AddOne(_, _)
AddOne(limbs, k) ==
    IF k = 0 THEN limbs
    ELSE IF limbs[k] = LimbBase - 1 THEN AddOne([limbs EXCEPT ![k] = 0], k - 1)
    ELSE [limbs EXCEPT ![k] = limbs[k] + 1]

Negate(limbs) == AddOne([k \in 1..Len(limbs) |-> LimbBase - 1 - limbs[k]], Len(limbs))

\* field padding: prefix (sign, 0x) and body to width under the flags
Pad(prefix, body, width, flags, zeroOK) ==
    LET n == Len(prefix) + Len(body)
        fill == IF width > n THEN width - n ELSE 0
    IN  IF "-" \in flags THEN prefix \o body \o Rep(" ", fill)
        ELSE IF zeroOK /\ "0" \in flags THEN prefix \o Rep("0", fill) \o body
        ELSE Rep(" ", fill) \o prefix \o body

SignPrefix(neg, flags) ==
    IF neg THEN <<"-">>
    ELSE IF "+" \in flags THEN <<"+">>
    ELSE IF " " \in flags THEN <<" ">>
    ELSE <<>>

\* d i u o x X
IntText(d, limbs) ==
    LET signed == d.conv \in {"d", "i"}
        bits == IF d.marker = "h" THEN <<limbs[Len(limbs)]>> ELSE limbs
        neg == signed /\ bits[1] >= LimbSign
        mag == IF neg THEN Negate(bits) ELSE bits
        digs0 == CASE d.conv = "o" -> ToDigits(mag, 8, DigitChars)
                   [] d.conv = "x" -> ToDigits(mag, 16, LowerHex)
                   [] d.conv = "X" -> ToDigits(mag, 16, UpperHex)
                   [] OTHER -> ToDigits(mag, 10, DigitChars)
        minDigits == IF d.dot THEN d.precision ELSE 1
        digs1 == IF Len(digs0) < minDigits
                 THEN Rep("0", minDigits - Len(digs0)) \o digs0 ELSE digs0
        digs2 == IF d.conv = "o" /\ "#" \in d.flags /\ (digs1 = <<>> \/ digs1[1] # "0")
                 THEN <<"0">> \o digs1 ELSE digs1
        prefix == IF d.conv \in {"x", "X"}
                  THEN (IF "#" \in d.flags /\ ~IsZero(mag) THEN <<"0", d.conv>> ELSE <<>>)
                  ELSE IF signed THEN SignPrefix(neg, d.flags) ELSE <<>>
    IN  Pad(prefix, digs2, d.width, d.flags, ~d.dot)

\* digits + 1, a carry out of the first digit making the sequence one longer
RECURSIVE Incr(_, _)
Incr(digs, k) ==
    IF k = 0 THEN <<"1">> \o digs
    ELSE IF digs[k] = "9" THEN Incr([digs EXCEPT ![k] = "0"], k - 1)
    ELSE [digs EXCEPT ![k] = DigitChars[DigitVal(digs[k]) + 2]]

\* ip rounded (half to even) to n significant digits, and its decimal exponent
RoundSig(ip, n) ==
    IF Len(ip) <= n
    THEN [digits |-> ip \o Rep("0", n - Len(ip)), exp |-> Len(ip) - 1]
    ELSE LET head == SubSeq(ip, 1, n)
             next == DigitVal(ip[n + 1])
             more == \E k \in (n + 2)..Len(ip) : ip[k] # "0"
             up == next > 5 \/ (next = 5 /\ (more \/ DigitVal(head[n]) % 2 = 1))
             r == IF up THEN Incr(head, n) ELSE head
         IN  IF Len(r) > n THEN [digits |-> SubSeq(r, 1, n), exp |-> Len(ip)]
             ELSE [digits |-> r, exp |-> Len(ip) - 1]

RECURSIVE StripZeros(_)
StripZeros(s) ==
    IF s # <<>> /\ s[Len(s)] = "0" THEN StripZeros(SubSeq(s, 1, Len(s) - 1)) ELSE s

\* the mantissa digits and exponent in the e style: d.ddde+XXX (the Microsoft
\* runtime the source is written for prints three exponent digits)
ExpText(digits, exp, e, alt, strip) ==
    LET frac0 == SubSeq(digits, 2, Len(digits))
        frac == IF strip THEN StripZeros(frac0) ELSE frac0
        x == ToDigits(<<exp>>, 10, DigitChars)
    IN  <<digits[1]>> \o (IF frac # <<>> \/ alt THEN <<".">> ELSE <<>>) \o frac
        \o <<e, "+">> \o Rep("0", 3 - Len(x)) \o x

\* e E f g G
FloatText(d, v) ==
    LET alt == "#" \in d.flags
        prec == IF d.dot THEN d.precision ELSE 6
        P == IF prec = 0 THEN 1 ELSE prec
        rg == RoundSig(v.ip, P)
        re == RoundSig(v.ip, prec + 1)
        body ==
            CASE d.conv = "f" ->
                    v.ip \o (IF prec > 0 \/ alt THEN <<".">> ELSE <<>>) \o Rep("0", prec)
              [] d.conv \in {"e", "E"} -> ExpText(re.digits, re.exp, d.conv, alt, FALSE)
              [] OTHER ->
                    IF rg.exp < P
                    THEN v.ip \o (IF alt THEN <<".">> \o Rep("0", P - 1 - rg.exp) ELSE <<>>)
                    ELSE ExpText(rg.digits, rg.exp, IF d.conv = "g" THEN "e" ELSE "E",
                                 alt, ~alt)
    IN  Pad(SignPrefix(v.neg, d.flags), body, d.width, d.flags, TRUE)

\* the character with a code (the codes the model's values use)
CodeChar(n) ==
    CASE n = 65 -> <<"A">>
      [] n = 97 -> <<"a">>
      [] n = 0 -> <<>>
      [] OTHER -> <<"?">>

\* whether the rendering routine takes the argument of c, C, s, S for wide:
\* h and l decide; without them c and s are of the format string's width and
\* C and S of the other; L does not count as a size for characters
TakesWide(d) ==
    IF d.marker = "h" THEN FALSE
    ELSE IF d.marker = "l" THEN TRUE
    ELSE (d.conv \in {"c", "s"}) = wide

\* p: the address in eight hexadecimal digits
PointerText(d, limbs) ==
    LET h == ToDigits(limbs, 16, UpperHex)
    IN  Pad(<<>>, Rep("0", 8 - Len(h)) \o h, d.width, d.flags, FALSE)

StringText(d, a) ==
    LET \* a wide string read as a narrow one ends at its first zero byte
        seen == IF a.size = Long /\ ~TakesWide(d) THEN Take(a.val.chars, 1)
                ELSE a.val.chars
    IN  Pad(<<>>, IF d.dot THEN Take(seen, d.precision) ELSE seen,
            d.width, d.flags, FALSE)

\* my_vsprintf(result, width, format, vl): the text vs[w]printf produces for
\* the one directive d and the one argument a that passed the type check
my_vsprintf(d, a) ==
    CASE d.conv \in {"d", "i", "u", "o", "x", "X"} -> IntText(d, a.val)
      [] d.conv \in {"e", "E", "f", "g", "G"} -> FloatText(d, a.val)
      [] d.conv \in {"c", "C"} ->
            Pad(<<>>, IF a.type = Char THEN <<a.val>> ELSE CodeChar(a.val[Len(a.val)]),
                d.width, d.flags, FALSE)
      [] d.conv \in {"s", "S"} -> StringText(d, a)
      [] d.conv = "p" ->
            PointerText(d, IF a.type = String THEN a.val.addr ELSE a.val)
      [] OTHER -> <<>>

-----------------------------------------------------------------------------
(* Printf::Do *)
NoFrame ==
    [stage |-> "none", conv |-> NUL, marker |-> NUL, sizeChar |-> NUL,
     fmtChar |-> NUL, width |-> 0, precision |-> 0, i |-> 0, need |-> 0,
     capacity |-> 0]

\* Do() halted by an assertion (or a fault) before the type check, after
\* copying i characters into format[0..i-1]
Halt(pos, e, read, i) ==
    [pos |-> pos, out |-> <<>>, err |-> e, read |-> read,
     frame |-> [NoFrame EXCEPT !.stage = "parse", !.i = i]]

\* Lines 306-333: the capacity of the result buffer
ResultCapacity(d, fmtChar, a) ==
    LET len == IF fmtChar = "s" THEN Len(a.val.chars) ELSE 0
        width == IF fmtChar = "s" /\ len > d.width THEN len ELSE d.width
    IN  (IF d.precision > width THEN d.precision ELSE width) + ResultMargin

\* The line of the statement format[i++] = _fmt[_pos++] that copies the
\* character at position p of the directive d that starts at p0
StoreLine(d, p0, p) ==
    IF p = p0 THEN 185
    ELSE IF p < d.flagsEnd THEN 190
    ELSE IF p < d.widthEnd THEN 197
    ELSE IF p = d.widthEnd /\ d.dot THEN 205
    ELSE IF p < d.precEnd THEN 208
    ELSE IF p = d.precEnd /\ p < d.convPos THEN (IF d.sizeChar = "I" THEN 222 ELSE 216)
    ELSE IF p = d.precEnd + 1 /\ p < d.convPos THEN 223
    ELSE IF p < d.convPos THEN 224
    ELSE 232

\* format[] has FormatCapacity elements and no store into it is guarded: a
\* directive of more characters is copied past its end before the assertion
\* of line 254 is reached.  The behaviour is undefined from the first such
\* store: the call may go on as if the buffer were longer (outcomes), or
\* stop there.  stored is the number of characters Do copies.
WithFormatOverrun(d, p0, stored, outcomes) ==
    IF stored > FormatCapacity
    THEN outcomes \cup
         {[pos |-> p0 + FormatCapacity + 1, out |-> <<>>,
           err |-> Failed(Smashed, StoreLine(d, p0, p0 + FormatCapacity)),
           read |-> p0 + FormatCapacity,
           frame |-> [NoFrame EXCEPT !.stage = "parse", !.i = FormatCapacity + 1]]}
    ELSE outcomes

\* Every way Do(sizeAndType, value) can end for the argument a with the
\* cursor at p0: the cursor, the text written to the stream, the failure,
\* the highest index read and the locals.  More than one where the source's
\* behaviour is undefined.
Do(m, p0, a) ==
    LET d == Directive(m, p0)
        i == d.convPos + 1 - p0
        sizeChar == ResolveSizeChar(d.sizeChar, d.conv)
        fmtChar == RewriteFmtChar(d.conv)
        tc == TypeCheck(a.size, a.type, sizeChar, fmtChar)
        fr == [stage |-> "check", conv |-> d.conv, marker |-> d.marker,
               sizeChar |-> sizeChar, fmtChar |-> fmtChar, width |-> d.width,
               precision |-> d.precision, i |-> i, need |-> 0, capacity |-> 0]
        text == my_vsprintf(d, a)
        capacity == ResultCapacity(d, fmtChar, a)
        \* the copy in format[] holds a terminator before its conversion character
        cut == \E k \in p0..(d.convPos - 1) : Rd(m, k) = NUL
        Emit(t) ==
            LET st == OutputStaticText(m, d.convPos + 1)
            IN  [pos |-> st.pos, out |-> t \o st.out, err |-> st.err,
                 read |-> Max(d.read, st.read),
                 frame |-> [fr EXCEPT !.stage = "render", !.need = Len(t) + 1,
                                      !.capacity = capacity]]
        Crash(e, n) ==
            [pos |-> d.convPos + 1, out |-> <<>>, err |-> e, read |-> d.read,
             frame |-> [fr EXCEPT !.stage = "render", !.need = n,
                                  !.capacity = capacity]]
    IN  IF Rd(m, p0) # "%" THEN {Halt(p0 + 1, Failed(TooMany, 186), p0, 1)}
        ELSE IF d.read >= Len(m)
        THEN WithFormatOverrun(d, p0, i - 1,
                 {Halt(d.convPos, Failed(Fault, 189), d.read, i - 1)})
        ELSE IF d.conv = NUL
        THEN WithFormatOverrun(d, p0, i - 1,
                 {Halt(d.convPos, Failed(Invalid, 231), d.read, i - 1)})
        ELSE IF ~(i < FormatCapacity)
        THEN WithFormatOverrun(d, p0, i,
                 {Halt(d.convPos + 1, Failed(TooLong, 254), d.read, i)})
        ELSE IF tc # NoErr
        THEN {[pos |-> d.convPos + 1, out |-> <<>>, err |-> tc, read |-> d.read,
               frame |-> fr]}
        ELSE IF fmtChar = "s" /\ sizeChar \notin {"h", "l"}
        THEN {[pos |-> d.convPos + 1, out |-> <<>>,
               err |-> Failed("sizeChar == 'l'", 319), read |-> d.read, frame |-> fr]}
        ELSE IF cut THEN {Emit(<<>>), Crash(Failed(Fault, 336), 0)}
        ELSE IF Len(text) + 1 > capacity
        THEN {Emit(text), Crash(Failed(Overrun, 336), Len(text) + 1)}
        ELSE {Emit(text)}

-----------------------------------------------------------------------------
(* The formatting call *)
\* Printf::Printf
Construct ==
    /\ pc = "start"
    /\ LET st == OutputStaticText(Memory(_fmt, beyond), 0)
       IN  /\ _pos' = st.pos
           /\ _ostm' = st.out
           /\ err' = st.err
           /\ maxRead' = st.read
           /\ pc' = IF st.err = NoErr THEN "pushing" ELSE "aborted"
    /\ UNCHANGED <<nargs, frame, config>>

\* Printf::operator<< for the next argument of the call
Push ==
    /\ pc = "pushing"
    /\ nargs < Len(args)
    /\ \E r \in Do(Memory(_fmt, beyond), _pos, args[nargs + 1]) :
           /\ _pos' = r.pos
           /\ _ostm' = _ostm \o r.out
           /\ err' = r.err
           /\ frame' = r.frame
           /\ maxRead' = Max(maxRead, r.read)
           /\ pc' = IF r.err = NoErr THEN "pushing" ELSE "aborted"
    /\ nargs' = nargs + 1
    /\ UNCHANGED config

\* Printf::~Printf
Destroy ==
    /\ pc = "pushing"
    /\ nargs = Len(args)
    /\ err' = Check(Rd(Memory(_fmt, beyond), _pos) = NUL, TooFew, 76)
    /\ pc' = IF err' = NoErr THEN "done" ELSE "aborted"
    /\ maxRead' = Max(maxRead, _pos)
    /\ UNCHANGED <<_pos, _ostm, nargs, frame, config>>

Next == Construct \/ Push \/ Destroy

\* the state once (ostm, fmt) and the arguments of the call are fixed
InitWith(fmts, beyonds, arglists, wides, signs, intsizes) ==
    /\ _fmt \in fmts
    /\ beyond \in beyonds
    /\ args \in arglists
    /\ wide \in wides
    /\ STREAMPRINTF_STRICT_SIGN \in signs
    /\ STREAMPRINTF_STRICT_INTSIZE \in intsizes
    /\ _pos = 0
    /\ _ostm = <<>>
    /\ nargs = 0
    /\ pc = "start"
    /\ err = NoErr
    /\ frame = NoFrame
    /\ maxRead = 0

-----------------------------------------------------------------------------
(* Arguments: what each operator<< overload hands to Do *)
Arg(size, type, val) == [size |-> size, type |-> type, val |-> val]

\* 2^100
Pow2to100 ==
    <<"1", "2", "6", "7", "6", "5", "0", "6", "0", "0", "2", "2", "8", "2", "2",
      "9", "4", "0", "1", "4", "9", "6", "7", "0", "3", "2", "0", "5", "3", "7",
      "6">>

Whole(neg, ip) == [neg |-> neg, ip |-> ip]
Str(chars) == [chars |-> chars, addr |-> <<18, 65404>>]

int42 == Arg(None, Int, <<0, 42>>)
strHi == Arg(Short, String, Str(<<"h", "i">>))
dblBig == Arg(None, Float, Whole(FALSE, Pow2to100))
dbl3 == Arg(None, Float, Whole(FALSE, <<"3">>))

\* one argument of every overload of operator<< (lines 78-103)
Overloads ==
    { Arg(None, Int, <<0, 1>>),                    \* bool
      Arg(Short, Int, <<65535, 65535>>),           \* short -1
      int42,                                       \* int
      Arg(Long, Int, <<65535, 65534>>),            \* long -2
      Arg(Int64, Int, <<32767, 65535, 65535, 65535>>),   \* __int64
      Arg(Short, Unsigned, <<0, 65>>),             \* unsigned short, wchar_t
      Arg(None, Unsigned, <<65535, 65535>>),       \* unsigned int
      Arg(Long, Unsigned, <<0, 7>>),               \* unsigned long
      Arg(Int64, Unsigned, <<65535, 65535, 65535, 65535>>),  \* unsigned __int64
      dbl3,                                        \* float, double
      Arg(Long, Float, Whole(TRUE, <<"7">>)),      \* long double
      Arg(Short, Char, "x"),                       \* char, unsigned char
      strHi,                                       \* const char*, std::string
      Arg(Long, String, Str(<<"w", "s">>)),        \* const wchar_t*, std::wstring
      Arg(None, Pointer, <<18, 65408>>) }          \* const void*

-----------------------------------------------------------------------------
(* The calls explored *)
MaxPieces == 2
MaxArgs == 2
MaxBeyond == 2

RECURSIVE Concats(_, _)
Concats(pieces, n) ==
    IF n = 0 THEN {<<>>}
    ELSE LET S == Concats(pieces, n - 1)
         IN  S \cup {s \o p : s \in S, p \in pieces}

Pieces ==
    {<<"a">>, <<"%", "%">>, <<"%", "d">>, <<"%", "s">>, <<"%", "f">>, <<"%">>,
     <<"%", "l">>}

\* the default build (neither STREAMPRINTF_STRICT_ macro defined), narrow and
\* wide, on format strings made of up to MaxPieces pieces
Init ==
    InitWith(Concats(Pieces, MaxPieces), {<<>>},
             Concats({<<int42>>, <<strHi>>, <<dblBig>>}, MaxArgs),
             BOOLEAN, {FALSE}, {FALSE})

Spec == Init /\ [][Next]_vars

\* every build, on one directive "%" size conv and one argument of every overload
ConvChars ==
    {"d", "i", "o", "x", "X", "u", "e", "E", "f", "g", "G", "c", "s", "p", "C", "S"}
SizeMarkers == {<<>>, <<"h">>, <<"l">>, <<"L">>, <<"I", "6", "4">>}

TypesInit ==
    InitWith({<<"%">> \o sz \o <<c>> : sz \in SizeMarkers, c \in ConvChars \cup {"q"}},
             {<<>>}, {<<a>> : a \in Overloads}, BOOLEAN, BOOLEAN, BOOLEAN)

SpecTypes == TypesInit /\ [][Next]_vars

\* the default narrow build on format strings that end inside a directive,
\* with 1 to MaxBeyond bytes of memory mapped after the terminator
Truncated ==
    {<<"%", "-">>, <<"%", "5">>, <<"%", ".">>, <<"%", ".", "3">>, <<"%", "l">>,
     <<"%", "I", "6", "4">>, <<"%", "+", "0", "8">>}

TruncInit ==
    InitWith({pre \o t : pre \in {<<>>, <<"a">>, <<"%", "d">>}, t \in Truncated},
             Concats({<<NUL>>, <<"d">>, <<"x">>}, MaxBeyond) \ {<<>>},
             Concats({<<int42>>}, MaxArgs), {FALSE}, {FALSE}, {FALSE})

SpecTrunc == TruncInit /\ [][Next]_vars

\* the default build, narrow and wide, on one directive whose flags or
\* precision digits bring it to FormatCapacity - 2 .. FormatCapacity + MaxOver
\* characters, alone or after a literal character
MaxOver == 1

LongDirectives ==
    {<<"%">> \o fill \o <<c>> :
        fill \in {Rep(ch, n) : ch \in {"-", "0", "+", " ", "#"},
                               n \in (FormatCapacity - 4)..(FormatCapacity - 2 + MaxOver)}
             \cup {<<".">> \o Rep("0", n - 1) :
                               n \in (FormatCapacity - 4)..(FormatCapacity - 2 + MaxOver)}
             \cup {Rep("-", n - 3) \o <<"I", "6", "4">> :
                               n \in (FormatCapacity - 4)..(FormatCapacity - 2 + MaxOver)},
        c \in {"d", "s"}}

LongInit ==
    InitWith({pre \o t : pre \in {<<>>, <<"a">>}, t \in LongDirectives},
             {<<>>},
             {<<>>, <<int42>>, <<strHi>>, <<Arg(Int64, Int, <<0, 0, 0, 42>>)>>},
             BOOLEAN, {FALSE}, {FALSE})

SpecLong == LongInit /\ [][Next]_vars

-----------------------------------------------------------------------------
(* The directive grammar, read off the format string alone:                  *)
(*   directive := '%' flags* width? ('.' precision?)? size? conv             *)
(* A format string is a sequence of tokens: a literal character ("lit"), a   *)
(* "%%" pair ("esc"), a directive ("dir"), a directive the string ends in    *)
(* the middle of ("trunc"), a last '%' with nothing after it ("percent").    *)
RECURSIVE SkipSet(_, _, _)
SkipSet(f, k, S) == IF k <= Len(f) /\ f[k] \in S THEN SkipSet(f, k + 1, S) ELSE k

\* the index of the conversion character of the directive whose '%' is f[k]
ConvIndex(f, k) ==
    LET a == SkipSet(f, k + 1, {"-", "+", "0", " ", "#"})
        b == SkipSet(f, a, {DigitChars[n] : n \in 1..10})
        c == IF b <= Len(f) /\ f[b] = "."
             THEN SkipSet(f, b + 1, {DigitChars[n] : n \in 1..10}) ELSE b
    IN  IF c <= Len(f) /\ f[c] \in {"h", "l", "L"} THEN c + 1
        ELSE IF c + 2 <= Len(f) /\ f[c] = "I" /\ f[c + 1] = "6" /\ f[c + 2] = "4"
        THEN c + 3
        ELSE c

RECURSIVE Tokens(_, _)
Tokens(f, k) ==
    IF k > Len(f) THEN <<>>
    ELSE IF f[k] # "%" THEN <<[kind |-> "lit", at |-> k, end |-> k]>> \o Tokens(f, k + 1)
    ELSE IF k = Len(f) THEN <<[kind |-> "percent", at |-> k, end |-> k]>>
    ELSE IF f[k + 1] = "%"
    THEN <<[kind |-> "esc", at |-> k, end |-> k + 1]>> \o Tokens(f, k + 2)
    ELSE LET e == ConvIndex(f, k)
         IN  IF e > Len(f) THEN <<[kind |-> "trunc", at |-> k, end |-> Len(f)]>>
             ELSE <<[kind |-> "dir", at |-> k, end |-> e]>> \o Tokens(f, e + 1)

Toks == Tokens(_fmt, 1)
Kinds(ts) == {ts[j].kind : j \in 1..Len(ts)}
NDirs(ts) == Cardinality({j \in 1..Len(ts) : ts[j].kind = "dir"})
LastKind(ts) == IF ts = <<>> THEN "none" ELSE ts[Len(ts)].kind

\* the directive of token t as the source parses it
DirOf(f, t) == Directive(Memory(f, <<>>), t.at - 1)

\* The text and the cursor after the constructor and n answered directives:
\* the literal runs and the renderings, in format-string order, up to the
\* (n+1)-th directive or the end.  ok is FALSE when the format string gives
\* out first (it ends in a bare '%' or inside a directive).
RECURSIVE Ref(_, _, _, _, _, _)
Ref(f, ts, j, n, as, out) ==
    IF j > Len(ts) THEN [ok |-> n = 0, out |-> out, pos |-> Len(f)]
    ELSE CASE ts[j].kind = "lit" -> Ref(f, ts, j + 1, n, as, out \o <<f[ts[j].at]>>)
           [] ts[j].kind = "esc" -> Ref(f, ts, j + 1, n, as, out \o <<"%">>)
           [] ts[j].kind = "dir" ->
                IF n = 0 THEN [ok |-> TRUE, out |-> out, pos |-> ts[j].at - 1]
                ELSE Ref(f, ts, j + 1, n - 1, Tail(as),
                         out \o my_vsprintf(DirOf(f, ts[j]), Head(as)))
           [] ts[j].kind = "trunc" ->
                [ok |-> n = 0, out |-> out, pos |-> ts[j].at - 1]
           [] OTHER -> [ok |-> FALSE, out |-> out, pos |-> ts[j].at - 1]

Expected(n) == Ref(_fmt, Toks, 1, n, args, <<>>)

Finished == pc \in {"done", "aborted"}
\* the pushes that returned: the last one did not if Do itself halted
Returned == IF err.line >= 185 /\ err.line <= 342 THEN nargs - 1 ELSE nargs

-----------------------------------------------------------------------------
(* What the specification says of a directive and an argument *)
Rewritten(conv) == IF conv = "C" THEN "c" ELSE IF conv = "S" THEN "s" ELSE conv

\* the legal conversion characters of an argument's Category
LegalSet(a) ==
    CASE a.type = Int ->
            IF STREAMPRINTF_STRICT_SIGN THEN {"d", "i", "o", "x", "X"}
            ELSE {"d", "i", "u", "o", "x", "X"}
      [] a.type = Unsigned ->
            (IF STREAMPRINTF_STRICT_SIGN THEN {"u", "o", "x", "X"}
             ELSE {"d", "i", "u", "o", "x", "X"})
            \cup (IF a.size = Short THEN {"c"} ELSE {})
      [] a.type = Float -> {"e", "E", "f", "g", "G"}
      [] a.type = Char -> {"c"}
      [] a.type = String -> {"s", "p"}
      [] a.type = Pointer -> {"p"}
      [] OTHER -> {}

\* the size-class an argument's Size requires of the directive
SizeClassMatches(size, sc) ==
    CASE size = Short -> sc = "h"
      [] size = Int64 -> sc = "I"
      [] size = None ->
            IF STREAMPRINTF_STRICT_INTSIZE THEN sc = NUL ELSE sc \in {NUL, "l"}
      [] size = Long ->
            IF STREAMPRINTF_STRICT_INTSIZE THEN sc = "l" ELSE sc \in {NUL, "l"}
      [] OTHER -> FALSE

MarkerClass(marker) == IF marker = "L" THEN "l" ELSE marker
Native == IF wide THEN "l" ELSE "h"
Opposite == IF wide THEN "h" ELSE "l"

\* the last push got as far as the type check
Checked == frame.stage \in {"check", "render"}
SizeCheckLines == {261, 268, 270, 278, 281, 287, 291, 294}
CharCheckLines == {300, 302}

Dirs == SelectSeq(Toks, LAMBDA t : t.kind = "dir")
WellFormed ==
    /\ Kinds(Toks) \subseteq {"lit", "esc", "dir"}
    /\ \A j \in 1..Len(Dirs) : _fmt[Dirs[j].end] \in ConvChars
\* argument a passes the type check of the directive of token t
Compatible(t, a) ==
    LET d == DirOf(_fmt, t)
    IN  TypeCheck(a.size, a.type, ResolveSizeChar(d.sizeChar, d.conv),
                  RewriteFmtChar(d.conv)) = NoErr

RECURSIVE Unescape(_)
Unescape(s) ==
    IF s = <<>> THEN <<>>
    ELSE IF Len(s) >= 2 /\ s[1] = "%" /\ s[2] = "%"
    THEN <<"%">> \o Unescape(SubSeq(s, 3, Len(s)))
    ELSE <<s[1]>> \o Unescape(Tail(s))

-----------------------------------------------------------------------------
(* C1: a format string of N well-formed directives takes exactly N           *)
(* type-compatible arguments: with N the call ends without a failure, with   *)
(* fewer it ends in "Too few arguments" at finalization, and an (N+1)-th     *)
(* push after N successful ones fails with "Too many arguments".             *)
C1_ArgumentCount ==
    LET N == Len(Dirs)
        k == IF Len(args) < N THEN Len(args) ELSE N
    IN  (WellFormed /\ Finished /\ \A j \in 1..k : Compatible(Dirs[j], args[j])) =>
            /\ Len(args) = N => pc = "done" /\ err = NoErr
            /\ Len(args) < N => err = Failed(TooFew, 76) /\ nargs = Len(args)
            /\ Len(args) > N => err = Failed(TooMany, 186) /\ nargs = N + 1

(* C2: a push that reaches the type check fails with "Type mismatch" when    *)
(* the conversion character (C, S taken as c, s) is not in the legal set of  *)
(* the argument's Category, and not on the conversion character when it is;  *)
(* "%u" with an int fails exactly under STREAMPRINTF_STRICT_SIGN.            *)
C2_LegalConversion ==
    Checked =>
        LET a == args[nargs]
            c == Rewritten(frame.conv)
        IN  /\ c \notin LegalSet(a) => err.msg = Mismatch
            /\ c \in LegalSet(a) => err.line \notin CharCheckLines
            /\ (_fmt = <<"%", "u">> /\ a = int42) =>
                   (IF STREAMPRINTF_STRICT_SIGN THEN err = Failed(Mismatch, 302)
                    ELSE err = NoErr)

C2_Witness ==
    /\ Checked
    /\ _fmt = <<"%", "u">>
    /\ args = <<int42>>
    /\ STREAMPRINTF_STRICT_SIGN
    /\ err = Failed(Mismatch, 302)

(* C3: for an argument that is neither an unsigned short nor a string        *)
(* rendered with p, the size check passes exactly when the directive's       *)
(* resolved size-class matches the argument's Size (h for Short, I64 for     *)
(* 64-bit, none or l for default and long, told apart only under             *)
(* STREAMPRINTF_STRICT_INTSIZE), and every other combination fails with      *)
(* "Type mismatch"; "%ld" with an int fails only under the strict build and  *)
(* "%s" with an int always fails.                                            *)
C3_SizeClass ==
    Checked =>
        LET a == args[nargs]
            exempt == \/ a.type = Unsigned /\ a.size = Short
                      \/ a.type = String /\ Rewritten(frame.conv) = "p"
            matches == SizeClassMatches(a.size, frame.sizeChar)
        IN  /\ ~exempt =>
                /\ matches <=> err.line \notin SizeCheckLines
                /\ ~matches => err.msg = Mismatch
            /\ (_fmt = <<"%", "l", "d">> /\ a = int42) =>
                   (IF STREAMPRINTF_STRICT_INTSIZE THEN err = Failed(Mismatch, 278)
                    ELSE err = NoErr)
            /\ (_fmt = <<"%", "s">> /\ a = int42) => err.msg = Mismatch

C3_Witness ==
    /\ Checked
    /\ _fmt = <<"%", "l", "d">>
    /\ args = <<int42>>
    /\ STREAMPRINTF_STRICT_INTSIZE
    /\ err = Failed(Mismatch, 278)

(* C4: a format string whose last character is an unescaped '%' makes the    *)
(* call fail with "Invalid format specification", whatever the arguments.    *)
EndsInPercent ==
    /\ _fmt # <<>>
    /\ _fmt[Len(_fmt)] = "%"
    /\ LastKind(Toks) # "esc"

C4_AlwaysMalformed ==
    (EndsInPercent /\ Finished) => err.msg = Invalid

(* C4 as amended: the call always fails, and with "Invalid format            *)
(* specification" exactly when the scan of literal text arrives at the last  *)
(* '%', which is when every directive before it has been answered by a push  *)
(* that returned; when the arguments run out first the failure is "Too few   *)
(* arguments", and it is never "Too many arguments".                         *)
C4_FailsWhereScanStops ==
    (EndsInPercent /\ Finished) =>
        /\ err # NoErr
        /\ err = Failed(Invalid, 354) <=>
               (LastKind(Toks) = "percent" /\ Returned = NDirs(Toks))
        /\ err = Failed(TooFew, 76) <=>
               (Returned = Len(args) /\ Returned < NDirs(Toks))
        /\ err.msg # TooMany

C4_Witness ==
    /\ _fmt = <<"%", "d", "%">>
    /\ args = <<>>
    /\ pc = "aborted"
    /\ err = Failed(TooFew, 76)

(* C5: when the format string ends inside a directive, after the '%' and at  *)
(* least one flag, width, precision or size character, the push that parses  *)
(* that directive fails with "Invalid format specification".                 *)
C5_TruncatedDirectiveFails ==
    (LastKind(Toks) = "trunc" /\ nargs = NDirs(Toks) + 1) => err.msg = Invalid

(* C6: a "%%" pair in literal text puts one '%' in the sink, moves the       *)
(* cursor by two and takes no argument: after the constructor the sink is    *)
(* the text before the cursor with every "%%" as "%", and a format string    *)
(* of literal characters and "%%" pairs alone is rendered so to its end and, *)
(* with no arguments, finalizes without a failure.                           *)
C6_EscapedPercent ==
    /\ (pc = "pushing" /\ nargs = 0) =>
           _ostm = Unescape(SubSeq(_fmt, 1, _pos))
    /\ (Kinds(Toks) \subseteq {"lit", "esc"} /\ pc # "start" /\ nargs = 0) =>
           /\ _pos = Len(_fmt)
           /\ _ostm = Unescape(_fmt)
           /\ Len(_ostm) + NDirs(Toks) + Cardinality({j \in 1..Len(Toks) :
                  Toks[j].kind = "esc"}) = _pos
           /\ err = NoErr
           /\ (args = <<>> /\ Finished) => pc = "done"

C6_Witness ==
    /\ pc = "done"
    /\ _fmt = <<"a", "%", "%">>
    /\ _ostm = <<"a", "%">>
    /\ _pos = 3

(* C7: the text the rendering routine produces for a push that passed the    *)
(* type check, with its terminator, fits the result buffer of                *)
(* max(width, precision) + 30 characters, width raised to the string's       *)
(* length for s.                                                             *)
C7_ResultFits ==
    frame.stage = "render" =>
        LET a == args[nargs]
            width == IF frame.fmtChar = "s" /\ Len(a.val.chars) > frame.width
                     THEN Len(a.val.chars) ELSE frame.width
        IN  frame.need <= Max(width, frame.precision) + 30

(* C8: the size-class a directive is checked with is h or l after the        *)
(* format string's own width for c and s without a size marker, and always   *)
(* the opposite width for C and S, whatever else the directive holds.        *)
C8_OppositeAlways ==
    Checked =>
        frame.sizeChar =
            IF frame.conv \in {"C", "S"} THEN Opposite
            ELSE IF frame.marker = NUL /\ frame.conv \in {"c", "s"} THEN Native
            ELSE MarkerClass(frame.marker)

(* C8 as amended: a size marker in the directive is the size-class it is     *)
(* checked with (L as l); without one, c and s get the format string's own   *)
(* width and C and S the opposite one; C and S are type-checked as c and s.  *)
C8_OppositeUnlessMarked ==
    Checked =>
        /\ frame.sizeChar =
               IF frame.marker # NUL THEN MarkerClass(frame.marker)
               ELSE IF frame.conv \in {"c", "s"} THEN Native
               ELSE IF frame.conv \in {"C", "S"} THEN Opposite
               ELSE NUL
        /\ frame.fmtChar = Rewritten(frame.conv)
        /\ (frame.conv \in {"C", "S"} /\ Rewritten(frame.conv) \in LegalSet(args[nargs]))
               => err.line \notin CharCheckLines

C8_Witness ==
    /\ Checked
    /\ frame.conv = "S"
    /\ frame.marker = "h"
    /\ frame.sizeChar = "h"
    /\ ~wide
    /\ args = <<strHi>>
    /\ pc = "done"

(* C9: after the constructor and after every push that returned, the sink    *)
(* holds the literal runs ("%%" as '%') and the renderings of the directives *)
(* before the cursor, in order, each with the argument of its position; a    *)
(* push that fails on its directive, its argument's type or a missing        *)
(* directive adds nothing; "Too few arguments" comes after every supplied    *)
(* argument was rendered.                                                    *)
C9_SinkIsPrefixRendering ==
    /\ pc = "pushing" =>
           /\ Expected(nargs).ok
           /\ _ostm = Expected(nargs).out
           /\ _pos = Expected(nargs).pos
    /\ (pc = "aborted" /\ Returned < nargs /\ err.msg \in {Invalid, Mismatch, TooMany})
           => _ostm = Expected(nargs - 1).out
    /\ err.msg = TooFew =>
           /\ nargs = Len(args)
           /\ _ostm = Expected(nargs).out

(* C10: the cursor never decreases and no operation reads the format string  *)
(* beyond its terminator.                                                    *)
C10_ReadsWithinString ==
    [][_pos' >= _pos /\ maxRead' <= Len(_fmt')]_vars

(* C11: while a push copies a directive into format[30], no character is     *)
(* stored at an index of 30 or more: a push never copies more than 30        *)
(* characters, "Format specification is too long" comes before any store     *)
(* outside the buffer, and the terminator is stored at an index of at most   *)
(* 29.                                                                       *)
C11_StoresWithinFormat ==
    frame.stage # "none" =>
        /\ frame.i <= 30
        /\ frame.stage \in {"check", "render"} => frame.i <= 29
        /\ err.msg # Smashed

====
